---- MODULE Spec2Model ----
(***************************************************************************)
(* State-machine model of src/index.mjs: the update-site service that      *)
(* resolves a workflow run for a pull request or a branch, obtains the run's *)
(* "Chunky Core" archive (from the on-disk cache or from upstream), locates  *)
(* the archive's first entry and serves it or its metadata.                  *)
(*                                                                           *)
(* Every request is an async Express handler.  A handler runs until its next *)
(* await; each action below is one such run-to-suspension segment, with the  *)
(* awaited result (an upstream response, a file read) drawn as its input.    *)
(* The cache write (writeFileAtomic) is not awaited by the handler: it is a  *)
(* background task of its own, modelled by the Store* actions.               *)
(***************************************************************************)
EXTENDS Integers, Sequences, FiniteSets, TLC

\* ------------------------------------------------------------------ bounds

\* Number of request slots, i.e. of requests in flight at the same time.
NumReq == 2
\* Run ids upstream may report.
MaxRunId == 2
\* Longest workflow_runs list upstream returns.
MaxRuns == 2
\* Number of bytes of an archive; a file write proceeds one byte at a time.
ArchiveLen == 2
\* Longest artifact list of a run.
MaxArtifacts == 2

Req == 1..NumReq
RunIds == 1..MaxRunId

\* ------------------------------------------------------- upstream's answers

\* The (status, conclusion) pairs of a workflow run.
RunStates ==
  { <<"in_progress", "null">>, <<"completed", "failure">>, <<"completed", "success">> }

\* A workflow run as the handlers read it: id, status, conclusion, created_at.
\* Upstream numbers runs in creation order, so created_at is taken as the id.
RunRecord(i, st) ==
  [id |-> i, status |-> st[1], conclusion |-> st[2], created_at |-> i]

Runs == { RunRecord(i, st) : i \in RunIds, st \in RunStates }

\* What Array.prototype.find returns when nothing matches (undefined), and
\* what getWorkflowRunsForPullRequest returns for a PR without head (null).
NoRun == [id |-> 0, status |-> "undefined", conclusion |-> "undefined", created_at |-> 0]

RECURSIVE SeqsUpTo(_, _)
SeqsUpTo(S, n) ==
  IF n = 0 THEN { <<>> }
  ELSE LET shorter == SeqsUpTo(S, n - 1)
       IN shorter \cup { Append(s, x) : s \in { t \in shorter : Len(t) = n - 1 }, x \in S }

\* The workflow_runs lists upstream may return: no run id twice.
RunLists ==
  { l \in SeqsUpTo(Runs, MaxRuns) :
      \A i, j \in 1..Len(l) : i # j => l[i].id # l[j].id }

\* No list in flight.
NoList == << NoRun >>

\* How a JSON API call ends: a 2xx answer of the documented shape; a 404 or
\* another non-success status (403, 5xx) whose body is a JSON error object
\* ({message: ...}); a body that is not JSON (res.json() rejects); a network
\* error (fetch rejects).
ApiKinds == { "ok", "status404", "status5xx", "badJson", "network" }

\* The answers that carry a JSON error object instead of the documented shape.
ErrorBodies == { "status404", "status5xx" }
\* The answers on which the awaited promise rejects.
Rejections == { "badJson", "network" }

\* ------------------------------------------------------------------ archives

\* Toy zip container of ArchiveLen bytes: payload bytes followed by one
\* trailer byte standing for the end-of-central-directory record.
EocdOne == 201      \* central directory with one readable entry
EocdEmpty == 200    \* central directory with no entry
EocdBadEntry == 202 \* central directory whose first entry header is invalid

Payload(id) == [k \in 1..(ArchiveLen - 1) |-> 10 * id + k]

\* The archive upstream holds for a run: for a fixed run id the bytes are fixed
\* (a run never changes its artifact).
GoodArchive(id) == Append(Payload(id), EocdOne)
\* Other bodies a download may deliver for the run: an empty container, a
\* container with a broken first entry, and bytes that are no container.
EmptyArchive(id) == Append(Payload(id), EocdEmpty)
BadEntryArchive(id) == Append(Payload(id), EocdBadEntry)
CorruptArchive(id) == Append(Payload(id), 0)

ArchiveBodies(id) ==
  { GoodArchive(id), EmptyArchive(id), BadEntryArchive(id), CorruptArchive(id) }

\* let zipBuffer; (undefined)
Undefined == << -1 >>

\* ---------------------------------------------------------------- filesystem

NoFile == [exists |-> FALSE, data |-> <<>>, mode |-> "none"]

\* join(RUN_ARTIFACTS_PATH, `${run.id}.zip`)
artifactCachePath(run) == << "zip", run.id >>

\* Mutant: every invocation uses the same temporary file.
TmpPathShared(r) == << "tmp", 1 >>

\* The temporary file of one writeFileAtomic invocation (the library derives
\* the name from a per-invocation counter, so no two invocations share it).
TmpPath(r) == << "tmp", r >>

Paths == ({ "zip" } \X RunIds) \cup ({ "tmp" } \X Req)

\* -------------------------------------------------------------------- state

Routes == { "prJar", "branchJar", "prJson", "branchJson" }

\* req.params.number as a sequence of characters: "1", "10", "0", "-1", "1a",
\* "a", "a1".
Identifiers ==
  { << "1" >>, << "1", "0" >>, << "0" >>, << "-", "1" >>, << "1", "a" >>,
    << "a" >>, << "a", "1" >> }

\* No :number parameter (the branch routes).
NoIdentifier == << >>

Digits == { "0", "1" }
DigitVal(c) == IF c = "1" THEN 1 ELSE 0

\* The value of the longest prefix of s[i..] made of digits, read in base 10
\* onto acc, and whether that prefix held a digit.
RECURSIVE parseDigits(_, _, _, _)
parseDigits(s, i, acc, any) ==
  IF i > Len(s) \/ s[i] \notin Digits
    THEN [nan |-> ~any, val |-> acc]
    ELSE parseDigits(s, i + 1, 10 * acc + DigitVal(s[i]), TRUE)

\* parseInt(number, 10): an optional sign, then the longest run of digits;
\* what follows the digits is ignored; NaN when there is no digit.
parseInt(s) ==
  IF Len(s) >= 1 /\ s[1] = "-"
    THEN LET m == parseDigits(s, 2, 0, FALSE) IN [nan |-> m.nan, val |-> 0 - m.val]
    ELSE parseDigits(s, 1, 0, FALSE)

isNaN(x) == x.nan

VARIABLES
  pc,         \* pc[r]: where request r is suspended
  route,      \* route[r]: the route that received it
  prRecord,   \* prRecord[r]: `pr` of the /:number/pr.json handler
  workflows,  \* workflows[r]: workflow_runs of the run-list answer, until the cache is read
  run,        \* run[r]: the run the locator returned
  ims,        \* ims[r]: the request's If-Modified-Since time, 0 when the header is absent
  zipBuffer,  \* zipBuffer[r]
  fromCache,  \* fromCache[r]
  entry,      \* entry[r]: the zip entry getChunkyCoreJar resolved with
  outcome,    \* outcome[r]: how the request ended
  calls,      \* calls[r]: the upstream and filesystem calls the request issued
  faults,     \* faults[r]: <<call, kind>> of the calls that failed
  fs,         \* fs[path]: the files of RUN_ARTIFACTS_PATH
  store,      \* store[r]: the writeFileAtomic task the request started
  logged,     \* logged[r]: console.error of the cache write was called
  alive,      \* the process runs (no uncaught exception has ended it)
  number,     \* number[r]: req.params.number
  resHeaders, \* resHeaders[r]: the response headers set so far
  sent,       \* sent[r]: the entry bytes piped to the response
  stream,     \* stream[r]: the entry read stream of serveChunkyCoreJar
  hashes,     \* hashes[r][a]: the hash of algorithm a and the stream piped into it
  resBody        \* resBody[r]: the JSON document sent

\* The response and what feeds it.
respVars == << resHeaders, sent, stream, hashes, resBody >>

vars ==
  << pc, route, prRecord, workflows, run, ims, zipBuffer, fromCache, entry,
     outcome, calls, faults, fs, store, logged, alive, number, respVars >>

reqVars ==
  << pc, route, prRecord, workflows, run, ims, zipBuffer, fromCache, entry,
     outcome, calls, faults, number, respVars >>

Algorithms == { "md5", "sha256" }

\* No hash created yet.
NoHash == [st |-> "none", fed |-> 0, ended |-> FALSE, value |-> << >>]

NoBody == [md5 |-> << >>, sha256 |-> << >>, size |-> 0]

NoEntry == [fileName |-> "", uncompressedSize |-> 0]

NoStore == [st |-> "none", path |-> << "zip", 0 >>, buf |-> <<>>, n |-> 0]

Init ==
  /\ pc = [r \in Req |-> "idle"]
  /\ route = [r \in Req |-> "none"]
  /\ prRecord = [r \in Req |-> "none"]
  /\ workflows = [r \in Req |-> NoList]
  /\ run = [r \in Req |-> NoRun]
  /\ ims = [r \in Req |-> 0]
  /\ zipBuffer = [r \in Req |-> Undefined]
  /\ fromCache = [r \in Req |-> FALSE]
  /\ entry = [r \in Req |-> NoEntry]
  /\ outcome = [r \in Req |-> "none"]
  /\ calls = [r \in Req |-> {}]
  /\ faults = [r \in Req |-> {}]
  /\ fs = [p \in Paths |-> NoFile]
  /\ store = [r \in Req |-> NoStore]
  /\ logged = [r \in Req |-> FALSE]
  /\ alive = TRUE
  /\ number = [r \in Req |-> NoIdentifier]
  /\ resHeaders = [r \in Req |-> {}]
  /\ sent = [r \in Req |-> 0]
  /\ stream = [r \in Req |-> "none"]
  /\ hashes = [r \in Req |-> [a \in Algorithms |-> NoHash]]
  /\ resBody = [r \in Req |-> NoBody]

\* ------------------------------------------------------------ the locator

\* (run) => run.status === "completed" && run.conclusion === "success"
isSuccessfulRun(r) == r.status = "completed" /\ r.conclusion = "success"

\* workflows.workflow_runs.find(...): the first element, in list order, that
\* satisfies the predicate; undefined when none does.
RECURSIVE findFrom(_, _)
findFrom(list, i) ==
  IF i > Len(list) THEN NoRun
  ELSE IF isSuccessfulRun(list[i]) THEN list[i]
  ELSE findFrom(list, i + 1)

\* Mutant: the run list's first element, whatever its status and conclusion.
findRunUnfiltered(list) == IF Len(list) > 0 THEN list[1] ELSE NoRun

findRun(list) == findFrom(list, 1)

\* if (!pull.head) return null: only the documented answer carries a head.
\* Mutant: the check is missing.
hasHeadUnchecked(k) == TRUE

hasHead(k) == k = "ok"

\* ---------------------------------------------------------------- responses

\* The request ends: a response is sent (res.status(..).json(..).end()), or the
\* handler's promise rejects ("rejected": the handler itself sends nothing).
Respond(r, out) ==
  /\ pc' = [pc EXCEPT ![r] = "responded"]
  /\ outcome' = [outcome EXCEPT ![r] = out]

NotFoundRun == "404 workflow run not found"
NotFoundArtifact == "404 chunky-core artifact not found in workflow run"
InvalidNumber == "400 invalid pr number"
NotModified == "304"
Rejected == "rejected"

\* getChunkyCoreJar(run) up to its first await: readFile(artifactCachePath).
EnterGetChunkyCoreJar(r) ==
  /\ pc' = [pc EXCEPT ![r] = "readFile"]
  /\ calls' = [calls EXCEPT ![r] = @ \cup { "readFile" }]
  /\ outcome' = outcome

\* serveChunkyCoreJar(run, req, res) up to its first await; t is the request's
\* If-Modified-Since time (0 when absent), which the function never reads.
EnterServeChunkyCoreJar(r, theRun, t) ==
  /\ ims' = [ims EXCEPT ![r] = t]
  /\ resHeaders' = resHeaders
  /\ EnterGetChunkyCoreJar(r)

\* serveJsonForWorkflowRun(run, template, req, res) up to its first await:
\* Last-Modified is set, then If-Modified-Since (t, 0 when absent: new
\* Date(undefined) compares false) is compared with run.created_at.
EnterServeJson(r, theRun, t) ==
  /\ ims' = [ims EXCEPT ![r] = t]
  /\ IF theRun = NoRun
       THEN \* run.created_at of undefined: TypeError
            Respond(r, Rejected) /\ UNCHANGED << calls, resHeaders >>
       ELSE /\ resHeaders' = [resHeaders EXCEPT ![r] = { "Last-Modified" }]
            /\ IF t # 0 /\ t >= theRun.created_at
                 THEN Respond(r, NotModified) /\ calls' = calls
                 ELSE EnterGetChunkyCoreJar(r)

\* -------------------------------------------------------------- the handlers

\* A request arrives on one of the routes that resolve a run.  The PR routes
\* answer 400 when parseInt(number, 10) is NaN and call upstream otherwise.
Receive(r) ==
  /\ alive
  /\ pc[r] = "idle"
  /\ \A q \in Req : q < r => pc[q] # "idle"
  /\ \E rt \in Routes, s \in Identifiers \cup { NoIdentifier } :
       /\ (rt \in { "branchJar", "branchJson" } <=> s = NoIdentifier)
       /\ route' = [route EXCEPT ![r] = rt]
       /\ number' = [number EXCEPT ![r] = s]
       /\ IF s # NoIdentifier /\ isNaN(parseInt(s))
            THEN Respond(r, InvalidNumber) /\ calls' = calls
            ELSE /\ outcome' = outcome
                 /\ pc' = [pc EXCEPT ![r] =
                      CASE rt = "prJar" -> "pull"
                        [] rt = "prJson" -> "getPullRequest"
                        [] OTHER -> "runs"]
                 /\ calls' = [calls EXCEPT ![r] =
                      CASE rt = "prJar" -> { "pull" }
                        [] rt = "prJson" -> { "getPullRequest" }
                        [] OTHER -> { "runs" }]
  /\ UNCHANGED << prRecord, workflows, run, ims, zipBuffer, fromCache, entry,
                  faults, fs, store, logged, alive, respVars >>

\* /:number/pr.json: const pr = await getPullRequest(number); `!pr` holds for
\* no JSON object, so an error object passes as the pull request.
GetPullRequestResponse(r) ==
  /\ alive
  /\ pc[r] = "getPullRequest"
  /\ \E k \in ApiKinds :
       /\ faults' = [faults EXCEPT ![r] =
            IF k = "ok" THEN @ ELSE @ \cup { << "getPullRequest", k >> }]
       /\ IF k \in Rejections
            THEN /\ Respond(r, Rejected)
                 /\ UNCHANGED << prRecord, calls >>
            ELSE /\ prRecord' = [prRecord EXCEPT ![r] =
                      IF k = "ok" THEN "record" ELSE "errorBody"]
                 /\ pc' = [pc EXCEPT ![r] = "pull"]
                 /\ calls' = [calls EXCEPT ![r] = @ \cup { "pull" }]
                 /\ outcome' = outcome
  /\ UNCHANGED << route, workflows, run, ims, zipBuffer, fromCache, entry,
                  fs, store, logged, alive, number, respVars >>

\* getWorkflowRunsForPullRequest after the PR fetch: an answer without head
\* returns null, and both PR handlers answer 404; otherwise the run list is
\* requested.
PullResponse(r) ==
  /\ alive
  /\ pc[r] = "pull"
  /\ \E k \in ApiKinds :
       /\ faults' = [faults EXCEPT ![r] =
            IF k = "ok" THEN @ ELSE @ \cup { << "pull", k >> }]
       /\ IF k \in Rejections
            THEN Respond(r, Rejected) /\ calls' = calls
            ELSE IF ~hasHead(k)
              THEN \* return null; run == null
                   Respond(r, NotFoundRun) /\ calls' = calls
              ELSE /\ pc' = [pc EXCEPT ![r] = "runs"]
                   /\ calls' = [calls EXCEPT ![r] = @ \cup { "runs" }]
                   /\ outcome' = outcome
  /\ UNCHANGED << route, prRecord, workflows, run, ims, zipBuffer, fromCache,
                  entry, fs, store, logged, alive, number, respVars >>

\* The run-list fetch settles.  An error object has no workflow_runs, so
\* workflows.workflow_runs.find throws a TypeError.
RunsResponse(r) ==
  /\ alive
  /\ pc[r] = "runs"
  /\ \E k \in ApiKinds :
       /\ faults' = [faults EXCEPT ![r] =
            IF k = "ok" THEN @ ELSE @ \cup { << "runs", k >> }]
       /\ IF k = "ok"
            THEN /\ \E l \in RunLists : workflows' = [workflows EXCEPT ![r] = l]
                 /\ pc' = [pc EXCEPT ![r] = "find"]
                 /\ outcome' = outcome
            ELSE Respond(r, Rejected) /\ workflows' = workflows
  /\ UNCHANGED << route, prRecord, run, ims, zipBuffer, fromCache, entry,
                  calls, fs, store, logged, alive, number, respVars >>

\* The locator returns find's result and the handler goes on: the null check
\* of the three handlers that have one, the template of pr.json (pr.title,
\* pr.user.login), then serveChunkyCoreJar or serveJsonForWorkflowRun.
SelectRun(r) ==
  /\ alive
  /\ pc[r] = "find"
  /\ LET found == findRun(workflows[r]) IN
       /\ run' = [run EXCEPT ![r] = found]
       /\ CASE route[r] \in { "prJar", "branchJar" } ->
                 IF found = NoRun
                   THEN Respond(r, NotFoundRun) /\ UNCHANGED << calls, ims, resHeaders >>
                   ELSE \E t \in 0..MaxRunId : EnterServeChunkyCoreJar(r, found, t)
            [] route[r] = "prJson" ->
                 IF found = NoRun
                   THEN Respond(r, NotFoundRun) /\ UNCHANGED << calls, ims, resHeaders >>
                   ELSE IF prRecord[r] = "errorBody"
                     THEN \* pr.user.login of an error object: TypeError
                          Respond(r, Rejected) /\ UNCHANGED << calls, ims, resHeaders >>
                     ELSE \E t \in 0..MaxRunId : EnterServeJson(r, found, t)
            [] OTHER ->
                 \E t \in 0..MaxRunId : EnterServeJson(r, found, t)
  /\ UNCHANGED << route, prRecord, workflows, zipBuffer, fromCache, entry,
                  faults, fs, store, logged, alive, number, sent, stream,
                  hashes, resBody >>

\* ------------------------------------------------------- getChunkyCoreJar

\* The names an artifact of a run may carry.
ArtifactNames == { "Chunky Core", "Chunky Launcher" }

\* artifacts.artifacts of an artifact-list answer.
ArtifactLists == SeqsUpTo(ArtifactNames, MaxArtifacts)

\* artifacts.artifacts.find((a) => a.name === "Chunky Core"): the index of the
\* first artifact of that name, 0 for undefined.
RECURSIVE findArtifactFrom(_, _)
findArtifactFrom(list, i) ==
  IF i > Len(list) THEN 0
  ELSE IF list[i] = "Chunky Core" THEN i
  ELSE findArtifactFrom(list, i + 1)

\* Mutant: the list's first artifact, whatever its name.
chunkyBuildFirst(list) == IF Len(list) > 0 THEN 1 ELSE 0

chunkyBuild(list) == findArtifactFrom(list, 1)

\* yauzl.fromBuffer(zipBuffer, {lazyEntries: true}, cb): err unless the
\* buffer ends in an end-of-central-directory record.
isZip(buf) ==
  /\ Len(buf) >= 1
  /\ buf[Len(buf)] \in { EocdOne, EocdEmpty, EocdBadEntry }

\* The entry the "entry" event carries for the first central-directory record.
firstEntry(buf) ==
  [fileName |-> buf[1], uncompressedSize |-> Len(buf) - 1]

\* try { zipBuffer = await readFile(artifactCachePath); fromCache = true }
\* catch {}.  The read of the whole file fails when the file is absent, and the
\* failure is swallowed.  A hit goes on to yauzl.fromBuffer, a miss requests
\* the artifact list.
ReadFileResult(r) ==
  /\ alive
  /\ pc[r] = "readFile"
  /\ LET f == fs[artifactCachePath(run[r])] IN
       IF f.exists
         THEN /\ zipBuffer' = [zipBuffer EXCEPT ![r] = f.data]
              /\ fromCache' = [fromCache EXCEPT ![r] = TRUE]
              /\ pc' = [pc EXCEPT ![r] = "fromBuffer"]
              /\ calls' = calls
         ELSE /\ pc' = [pc EXCEPT ![r] = "artifacts"]
              /\ calls' = [calls EXCEPT ![r] = @ \cup { "artifacts" }]
              /\ UNCHANGED << zipBuffer, fromCache >>
  /\ workflows' = [workflows EXCEPT ![r] = NoList]
  /\ UNCHANGED << route, prRecord, run, ims, entry, outcome, faults, fs,
                  store, logged, alive, number, respVars >>

\* The artifact-list fetch settles: an error object has no artifacts
\* (TypeError); without a "Chunky Core" artifact getChunkyCoreJar returns {}
\* and the caller answers 404; otherwise the archive download is requested.
ArtifactsResponse(r) ==
  /\ alive
  /\ pc[r] = "artifacts"
  /\ \E k \in ApiKinds :
       IF k # "ok"
         THEN /\ faults' = [faults EXCEPT ![r] = @ \cup { << "artifacts", k >> }]
              /\ Respond(r, Rejected)
              /\ calls' = calls
         ELSE \E list \in ArtifactLists :
                /\ faults' = [faults EXCEPT ![r] =
                     IF \A i \in 1..Len(list) : list[i] # "Chunky Core"
                       THEN @ \cup { << "artifacts", "noChunkyCore" >> } ELSE @]
                /\ IF chunkyBuild(list) = 0
                     THEN Respond(r, NotFoundArtifact) /\ calls' = calls
                     ELSE /\ pc' = [pc EXCEPT ![r] = "download"]
                          /\ calls' = [calls EXCEPT ![r] = @ \cup { "download" }]
                          /\ outcome' = outcome
  /\ UNCHANGED << route, prRecord, workflows, run, ims, zipBuffer, fromCache,
                  entry, fs, store, logged, alive, number, respVars >>

\* How the archive download ends: a success status with the whole body; a
\* non-success status; a network error (fetch or res.arrayBuffer() rejects).
DownloadKinds == { "ok", "status404", "status5xx", "network" }

\* const res = await fetch(archive_download_url); if (!res.ok) return {};
\* zipBuffer = Buffer.from(await res.arrayBuffer(), "binary").
DownloadResponse(r) ==
  /\ alive
  /\ pc[r] = "download"
  /\ \E k \in DownloadKinds :
       /\ faults' = [faults EXCEPT ![r] =
            IF k = "ok" THEN @ ELSE @ \cup { << "download", k >> }]
       /\ CASE k = "network" -> Respond(r, Rejected) /\ zipBuffer' = zipBuffer
            [] k \in ErrorBodies ->
                 Respond(r, NotFoundArtifact) /\ zipBuffer' = zipBuffer
            [] OTHER ->
                 /\ \E body \in ArchiveBodies(run[r].id) :
                      zipBuffer' = [zipBuffer EXCEPT ![r] = body]
                 /\ pc' = [pc EXCEPT ![r] = "fromBuffer"]
                 /\ outcome' = outcome
  /\ UNCHANGED << route, prRecord, workflows, run, ims, fromCache, entry,
                  calls, fs, store, logged, alive, number, respVars >>

\* yauzl.fromBuffer calls back: reject(err) ends the handler; otherwise
\* zipFile.readEntry() is called and the "entry" listener is registered.
FromBuffer(r) ==
  /\ alive
  /\ pc[r] = "fromBuffer"
  /\ IF isZip(zipBuffer[r])
       THEN pc' = [pc EXCEPT ![r] = "readEntry"] /\ UNCHANGED << outcome, faults >>
       ELSE /\ Respond(r, Rejected)
            /\ faults' = [faults EXCEPT ![r] = @ \cup { << "zip", "fromBuffer" >> }]
  /\ UNCHANGED << route, prRecord, workflows, run, ims, zipBuffer, fromCache,
                  entry, calls, fs, store, logged, alive, number, respVars >>

\* Mutant: the bytes are written to the target path itself (fs.writeFile).
StoreTargetInPlace(r, path) == path

\* The path a writeFileAtomic invocation writes its bytes to: a temporary file
\* beside the target, renamed onto the target when complete.
StoreTarget(r, path) == TmpPath(r)

\* Mutant: the cache is written whether or not the buffer came from it.
shouldStoreAlways(r) == TRUE

\* if (!fromCache)
shouldStore(r) == ~fromCache[r]

\* Mutant: the task is given another run's cache path.
StartStoreOtherKey(r) ==
  [st |-> "writing", path |-> << "zip", (run[r].id % MaxRunId) + 1 >>,
   buf |-> zipBuffer[r], n |-> 0]

\* writeFileAtomic(artifactCachePath, zipBuffer, { mode: 0o444 }) is called
\* (not awaited).
StartStore(r) ==
  [st |-> "writing", path |-> artifactCachePath(run[r]), buf |-> zipBuffer[r], n |-> 0]

\* readEntry's result.  "entry": the listener starts the cache write unless the
\* buffer came from the cache, and resolves with the entry.  "end" (no entry):
\* nothing resolves the promise, the request stays pending.  "error" (invalid
\* entry header): zipFile has no "error" listener, so emit throws and the
\* uncaught exception ends the process.
EntryEvent(r) ==
  /\ alive
  /\ pc[r] = "readEntry"
  /\ LET trailer == zipBuffer[r][Len(zipBuffer[r])] IN
     CASE trailer = EocdOne ->
            /\ entry' = [entry EXCEPT ![r] = firstEntry(zipBuffer[r])]
            /\ pc' = [pc EXCEPT ![r] = "serve"]
            /\ IF shouldStore(r)
                 THEN /\ store' = [store EXCEPT ![r] = StartStore(r)]
                      /\ calls' = [calls EXCEPT ![r] = @ \cup { "writeFile" }]
                 ELSE UNCHANGED << store, calls >>
            /\ UNCHANGED << alive, faults >>
       [] trailer = EocdEmpty ->
            /\ pc' = [pc EXCEPT ![r] = "pending"]
            /\ UNCHANGED << entry, store, calls, alive, faults >>
       [] OTHER ->
            /\ alive' = FALSE
            /\ faults' = [faults EXCEPT ![r] = @ \cup { << "zip", "readEntry" >> }]
            /\ UNCHANGED << pc, entry, store, calls >>
  /\ UNCHANGED << route, prRecord, workflows, run, ims, zipBuffer, fromCache,
                  outcome, fs, logged, number, respVars >>

\* ------------------------------------------------- the cache write (store)

\* One write of the task: the file at the write target is created read-only
\* (mode 0o444) by the first write and grows by one byte per write.
StoreWrite(r) ==
  /\ alive
  /\ store[r].st = "writing"
  /\ LET t == StoreTarget(r, store[r].path)
         k == store[r].n + 1
         old == IF k = 1 THEN <<>> ELSE fs[t].data
     IN /\ fs' = [fs EXCEPT ![t] =
               [exists |-> TRUE, data |-> Append(old, store[r].buf[k]), mode |-> "0444"]]
        /\ store' = [store EXCEPT ![r].n = k,
                                  ![r].st = IF k = Len(store[r].buf) THEN "written" ELSE "writing"]
  /\ UNCHANGED << reqVars, logged, alive >>

\* The complete temporary file is renamed onto the target path (rename
\* replaces an existing target in one step, whatever its mode).
StoreRename(r) ==
  /\ alive
  /\ store[r].st = "written"
  /\ LET t == StoreTarget(r, store[r].path) IN
       fs' = IF t = store[r].path THEN fs
             ELSE [fs EXCEPT ![store[r].path] = fs[t], ![t] = NoFile]
  /\ store' = [store EXCEPT ![r].st = "done"]
  /\ UNCHANGED << reqVars, logged, alive >>

\* Mutant: no .catch on the write's promise; the unhandled rejection ends the
\* process.
StoreRejectionUnhandled(r) ==
  /\ logged' = logged
  /\ alive' = FALSE
  /\ UNCHANGED reqVars

\* .catch((e) => console.error(`caching artifacts of run ${run.id} failed`, e))
StoreRejection(r) ==
  /\ logged' = [logged EXCEPT ![r] = TRUE]
  /\ alive' = alive
  /\ UNCHANGED reqVars

\* Any step of the task fails (no space, no directory, no permission): the
\* library removes its temporary file and rejects the write's promise.
StoreFail(r) ==
  /\ alive
  /\ store[r].st \in { "writing", "written" }
  /\ LET t == StoreTarget(r, store[r].path) IN
       fs' = IF t = store[r].path THEN fs ELSE [fs EXCEPT ![t] = NoFile]
  /\ store' = [store EXCEPT ![r].st = "failed"]
  /\ StoreRejection(r)

\* ------------------------------------------------------------- the response

OkJar == "200 jar"
OkJson == "200 json"
ReadFailed == "500 failed to read artifact zip file"

Aborted == "aborted"

\* The content of the entry, as a read stream of the entry delivers it.
entryContent(buf) == SubSeq(buf, 1, Len(buf) - 1)

\* Content-Length, Content-Type and Content-Disposition.
FramingHeaders == { "Content-Length", "Content-Type", "Content-Disposition" }

\* Mutant: the framing headers are set before err is looked at.
headersOnOpenAlways(err) == FramingHeaders

\* The headers serveChunkyCoreJar's openReadStream callback sets: none when it
\* is called with err.
headersOnOpen(err) == IF err THEN {} ELSE FramingHeaders

\* Mutant: getChunkyCoreJar(run) is not awaited, the entry is used while the
\* zip is still being read.
entryResolvedUnawaited(r) == pc[r] \in { "readEntry", "serve" }

\* const { entry, zipFile } = await getChunkyCoreJar(run) has resolved with an
\* entry (zipFile != null).
entryResolved(r) == pc[r] = "serve"

\* serveChunkyCoreJar, after getChunkyCoreJar resolved with { zipFile, entry }:
\* openReadStream calls back with err (500) or with the stream, which is piped
\* to the response after the framing headers.
OpenReadStream(r) ==
  /\ alive
  /\ entryResolved(r)
  /\ route[r] \in { "prJar", "branchJar" }
  /\ \E err \in BOOLEAN :
       /\ resHeaders' = [resHeaders EXCEPT ![r] = @ \cup headersOnOpen(err)]
       /\ IF err
            THEN /\ Respond(r, ReadFailed)
                 /\ faults' = [faults EXCEPT ![r] = @ \cup { << "openReadStream", "err" >> }]
                 /\ stream' = stream
            ELSE /\ pc' = [pc EXCEPT ![r] = "streaming"]
                 /\ stream' = [stream EXCEPT ![r] = "open"]
                 /\ UNCHANGED << outcome, faults >>
  /\ UNCHANGED << route, prRecord, workflows, run, ims, zipBuffer, fromCache,
                  entry, calls, fs, store, logged, alive, number, sent, hashes,
                  resBody >>

\* stream.pipe(res): the next byte of the entry is written to the response.
StreamData(r) ==
  /\ alive
  /\ pc[r] = "streaming"
  /\ sent[r] < entry[r].uncompressedSize
  /\ sent' = [sent EXCEPT ![r] = @ + 1]
  /\ UNCHANGED << pc, route, prRecord, workflows, run, ims, zipBuffer,
                  fromCache, entry, outcome, calls, faults, fs, store, logged,
                  alive, number, resHeaders, stream, hashes, resBody >>

\* The stream ends after its last byte: pipe ends the response.
StreamEnd(r) ==
  /\ alive
  /\ pc[r] = "streaming"
  /\ sent[r] = entry[r].uncompressedSize
  /\ stream' = [stream EXCEPT ![r] = "ended"]
  /\ Respond(r, OkJar)
  /\ UNCHANGED << route, prRecord, workflows, run, ims, zipBuffer, fromCache,
                  entry, calls, faults, fs, store, logged, alive, number,
                  resHeaders, sent, hashes, resBody >>

\* The client disconnects while the entry is piped: the response emits
\* "close", pipe's listener unpipes the stream, so no byte is forwarded any
\* more; the handler has no "close" listener of its own, and nothing destroys
\* the stream.
ClientClose(r) ==
  /\ alive
  /\ pc[r] = "streaming"
  /\ Respond(r, Aborted)
  /\ UNCHANGED << route, prRecord, workflows, run, ims, zipBuffer, fromCache,
                  entry, calls, faults, fs, store, logged, alive, number,
                  resHeaders, sent, stream, hashes, resBody >>

\* hash.read() when the hash has not been ended returns null.
Null == << "null" >>

\* Mutant: the digest of the bytes consumed so far (hash.copy().digest("hex")).
hashReadPartial(h, content) == << "lower", SubSeq(content, 1, h.fed) >>

\* hash.read() with hex encoding: the hash is a transform stream that pushes
\* its digest, the digest of all the bytes written to it, when it is ended;
\* before that there is nothing to read.
hashRead(h, content) ==
  IF h.ended THEN << "lower", SubSeq(content, 1, h.fed) >> ELSE Null

\* String.prototype.toUpperCase of a hex digest.
toUpperCase(d) == << "upper", d[2] >>

\* serveJsonForWorkflowRun, after getChunkyCoreJar resolved with { zipFile,
\* entry }: the openReadStream callback of algorithm a.  It ignores err; with
\* err the stream is undefined and stream.on throws in the callback, an
\* uncaught exception that ends the process.  Otherwise the hash is created
\* and the stream is piped into it.
OpenDigestStream(r, a) ==
  /\ alive
  /\ entryResolved(r)
  /\ route[r] \in { "prJson", "branchJson" }
  /\ hashes[r][a].st = "none"
  /\ \E err \in BOOLEAN :
       IF err
         THEN /\ alive' = FALSE
              /\ faults' = [faults EXCEPT ![r] = @ \cup { << "digest", "openErr" >> }]
              /\ hashes' = hashes
         ELSE /\ hashes' = [hashes EXCEPT ![r][a].st = "piped"]
              /\ UNCHANGED << alive, faults >>
  /\ UNCHANGED << pc, route, prRecord, workflows, run, ims, zipBuffer,
                  fromCache, entry, outcome, calls, fs, store, logged, number,
                  resHeaders, sent, stream, resBody >>

\* stream.pipe(hash): the hash consumes the next byte of the entry.
HashData(r, a) ==
  /\ alive
  /\ hashes[r][a].st = "piped"
  /\ hashes[r][a].fed < entry[r].uncompressedSize
  /\ hashes' = [hashes EXCEPT ![r][a].fed = @ + 1]
  /\ UNCHANGED << pc, route, prRecord, workflows, run, ims, zipBuffer,
                  fromCache, entry, outcome, calls, faults, fs, store, logged,
                  alive, number, resHeaders, sent, stream, resBody >>

\* The stream emits "end" once all its bytes were consumed: pipe ends the hash.
HashEnd(r, a) ==
  /\ alive
  /\ hashes[r][a].st = "piped"
  /\ hashes[r][a].fed = entry[r].uncompressedSize
  /\ ~hashes[r][a].ended
  /\ hashes' = [hashes EXCEPT ![r][a].ended = TRUE]
  /\ UNCHANGED << pc, route, prRecord, workflows, run, ims, zipBuffer,
                  fromCache, entry, outcome, calls, faults, fs, store, logged,
                  alive, number, resHeaders, sent, stream, resBody >>

\* stream.on("finish", () => resolve(hash.read().toUpperCase())): "finish"
\* says that the writable side of the entry stream is done, which no rule
\* orders after the hash's end; null.toUpperCase() throws in the listener, an
\* uncaught exception that ends the process.
StreamFinish(r, a) ==
  /\ alive
  /\ hashes[r][a].st = "piped"
  /\ LET v == hashRead(hashes[r][a], entryContent(zipBuffer[r])) IN
       IF v = Null
         THEN /\ alive' = FALSE
              /\ faults' = [faults EXCEPT ![r] = @ \cup { << "digest", "readNull" >> }]
              /\ hashes' = hashes
         ELSE /\ hashes' = [hashes EXCEPT ![r][a].st = "resolved",
                                           ![r][a].value = toUpperCase(v)]
              /\ UNCHANGED << alive, faults >>
  /\ UNCHANGED << pc, route, prRecord, workflows, run, ims, zipBuffer,
                  fromCache, entry, outcome, calls, fs, store, logged, number,
                  resHeaders, sent, stream, resBody >>

\* Promise.all resolved with both digests: res.json({...}).end().
SendJson(r) ==
  /\ alive
  /\ pc[r] = "serve"
  /\ \A a \in Algorithms : hashes[r][a].st = "resolved"
  /\ resBody' = [resBody EXCEPT ![r] =
       [md5 |-> hashes[r]["md5"].value, sha256 |-> hashes[r]["sha256"].value,
        size |-> entry[r].uncompressedSize]]
  /\ Respond(r, OkJson)
  /\ UNCHANGED << route, prRecord, workflows, run, ims, zipBuffer, fromCache,
                  entry, calls, faults, fs, store, logged, alive, number,
                  resHeaders, sent, stream, hashes >>

\* The request is over and its cache write, if any, has settled: the slot is
\* free for the next request.
Close(r) ==
  /\ alive
  /\ pc[r] = "responded"
  /\ store[r].st \in { "none", "done", "failed" }
  /\ pc' = [pc EXCEPT ![r] = "idle"]
  /\ route' = [route EXCEPT ![r] = "none"]
  /\ prRecord' = [prRecord EXCEPT ![r] = "none"]
  /\ run' = [run EXCEPT ![r] = NoRun]
  /\ ims' = [ims EXCEPT ![r] = 0]
  /\ zipBuffer' = [zipBuffer EXCEPT ![r] = Undefined]
  /\ fromCache' = [fromCache EXCEPT ![r] = FALSE]
  /\ entry' = [entry EXCEPT ![r] = NoEntry]
  /\ outcome' = [outcome EXCEPT ![r] = "none"]
  /\ calls' = [calls EXCEPT ![r] = {}]
  /\ faults' = [faults EXCEPT ![r] = {}]
  /\ store' = [store EXCEPT ![r] = NoStore]
  /\ logged' = [logged EXCEPT ![r] = FALSE]
  /\ workflows' = [workflows EXCEPT ![r] = NoList]
  /\ number' = [number EXCEPT ![r] = NoIdentifier]
  /\ resHeaders' = [resHeaders EXCEPT ![r] = {}]
  /\ sent' = [sent EXCEPT ![r] = 0]
  /\ stream' = [stream EXCEPT ![r] = "none"]
  /\ hashes' = [hashes EXCEPT ![r] = [a \in Algorithms |-> NoHash]]
  /\ resBody' = [resBody EXCEPT ![r] = NoBody]
  /\ UNCHANGED << fs, alive >>

\* ------------------------------------------------------------ specification

\* The branch handler of /lib/:filename has resolved a run and called
\* serveChunkyCoreJar: the request is at getChunkyCoreJar's readFile.
Dispatched(r) ==
  /\ alive
  /\ pc[r] = "idle"
  /\ \A q \in Req : q < r => pc[q] # "idle"
  /\ \E l \in RunLists :
       /\ findRun(l) # NoRun
       /\ run' = [run EXCEPT ![r] = findRun(l)]
  /\ route' = [route EXCEPT ![r] = "branchJar"]
  /\ pc' = [pc EXCEPT ![r] = "readFile"]
  /\ calls' = [calls EXCEPT ![r] = { "runs", "readFile" }]
  /\ UNCHANGED << prRecord, workflows, ims, zipBuffer, fromCache, entry,
                  outcome, faults, fs, store, logged, alive, number, respVars >>

\* Requests are served one at a time.
OneAtATime(r) == \A q \in Req \ { r } : pc[q] = "idle"

\* The whole pipeline, one request at a time.
Next ==
  \E r \in Req :
    /\ OneAtATime(r)
    /\ \/ Receive(r)
       \/ GetPullRequestResponse(r)
       \/ PullResponse(r)
       \/ RunsResponse(r)
       \/ SelectRun(r)
       \/ ReadFileResult(r)
       \/ ArtifactsResponse(r)
       \/ DownloadResponse(r)
       \/ FromBuffer(r)
       \/ EntryEvent(r)
       \/ StoreWrite(r)
       \/ StoreRename(r)
       \/ StoreFail(r)
       \/ OpenReadStream(r)
       \/ StreamData(r)
       \/ StreamEnd(r)
       \/ ClientClose(r)
       \/ \E a \in Algorithms : OpenDigestStream(r, a)
       \/ \E a \in Algorithms : HashData(r, a)
       \/ \E a \in Algorithms : HashEnd(r, a)
       \/ \E a \in Algorithms : StreamFinish(r, a)
       \/ SendJson(r)
       \/ Close(r)

Spec == Init /\ [][Next]_vars

\* Concurrent invocations of getChunkyCoreJar, one per request slot, from the
\* call to the point where it returns, rejects or resolves with the entry, and
\* the cache writes they start: the cache directory is what they share.
NextCache ==
  \E r \in Req :
    \/ Dispatched(r)
    \/ ReadFileResult(r)
    \/ ArtifactsResponse(r)
    \/ DownloadResponse(r)
    \/ FromBuffer(r)
    \/ EntryEvent(r)
    \/ StoreWrite(r)
    \/ StoreRename(r)
    \/ StoreFail(r)

SpecCache == Init /\ [][NextCache]_vars

\* ---------------------------------------- metadata request, then binary

\* The binary route of the build that a metadata route describes.
BinaryRouteOf(rt) == IF rt = "prJson" THEN "prJar" ELSE "branchJar"

\* A client asks for the metadata of a build and, once it has the document,
\* for the binary of the same build identifier, one request after the other.
\* Each request is handled on its own: the handlers keep nothing about a build
\* between requests except the cache files.
ReceiveInOrder(r) ==
  /\ Receive(r)
  /\ \A q \in Req : q < r => pc[q] = "responded"
  /\ IF r = 1
       THEN route'[r] \in { "prJson", "branchJson" }
       ELSE /\ outcome[1] = OkJson
            /\ route'[r] = BinaryRouteOf(route[1])
            /\ number'[r] = number[1]

NextPair ==
  \E r \in Req :
    \/ ReceiveInOrder(r)
    \/ GetPullRequestResponse(r)
    \/ PullResponse(r)
    \/ RunsResponse(r)
    \/ SelectRun(r)
    \/ ReadFileResult(r)
    \/ ArtifactsResponse(r)
    \/ DownloadResponse(r)
    \/ FromBuffer(r)
    \/ EntryEvent(r)
    \/ StoreWrite(r)
    \/ StoreRename(r)
    \/ StoreFail(r)
    \/ OpenReadStream(r)
    \/ StreamData(r)
    \/ StreamEnd(r)
    \/ ClientClose(r)
    \/ \E a \in Algorithms : OpenDigestStream(r, a)
    \/ \E a \in Algorithms : HashData(r, a)
    \/ \E a \in Algorithms : HashEnd(r, a)
    \/ \E a \in Algorithms : StreamFinish(r, a)
    \/ SendJson(r)

SpecPair == Init /\ [][NextPair]_vars

\* ------------------------------------------------------------------ claims

\* A run that may be used: completed and successful.
Eligible(x) == x.status = "completed" /\ x.conclusion = "success"

\* x is the first eligible element of l, or no run when l has none.
FirstEligible(l, x) ==
  \/ x = NoRun /\ \A i \in 1..Len(l) : ~Eligible(l[i])
  \/ \E i \in 1..Len(l) :
       /\ l[i] = x
       /\ Eligible(x)
       /\ \A j \in 1..(i - 1) : ~Eligible(l[j])

\* The stages after the locator: fetch, zip, digest and stream.
FetchStages ==
  { "readFile", "artifacts", "download", "fromBuffer", "readEntry", "pending",
    "serve", "streaming" }

\* C1: on the PR routes and on the branch routes alike, the run the locator
\* returns is the first element of the run list upstream returned whose status
\* is completed and whose conclusion is success, and no run when the list has
\* none; so a request in a fetch, zip, digest or stream stage always holds a
\* completed, successful run.
C1_FirstSuccessfulRun ==
  \A r \in Req :
    /\ (workflows[r] # NoList /\ pc[r] # "find") => FirstEligible(workflows[r], run[r])
    /\ (pc[r] \in FetchStages => Eligible(run[r]))
    /\ (run[r] # NoRun => Eligible(run[r]))

\* A PR request whose run list started with an unsuccessful run has been given
\* the successful run behind it.
C1_Witness ==
  \E r \in Req :
    /\ route[r] \in { "prJar", "prJson" }
    /\ pc[r] = "readFile"
    /\ Len(workflows[r]) = 2
    /\ workflows[r][1].conclusion = "failure"
    /\ run[r] = workflows[r][2]

\* C2: when the PR answer carries no head, the request ends with 404 "workflow
\* run not found" and has issued neither the run-list query nor any cache or
\* artifact fetch.
C2_NoHeadIsNotFound ==
  \A r \in Req :
    (\E k \in { "status404", "status5xx" } : << "pull", k >> \in faults[r]) =>
      /\ pc[r] = "responded"
      /\ outcome[r] = "404 workflow run not found"
      /\ calls[r] \cap { "runs", "readFile", "artifacts", "download", "writeFile" } = {}

C2_Witness ==
  \E r \in Req :
    /\ route[r] = "prJar"
    /\ << "pull", "status404" >> \in faults[r]
    /\ outcome[r] = "404 workflow run not found"
    /\ calls[r] = { "pull" }

\* A locator call of request r failed: a network error, a body that is not
\* JSON, or a non-success status (the 404 of the PR lookup, which is what a
\* missing pull request answers, is not counted).
LocatorCallFailed(r) ==
  \/ \E k \in { "status5xx", "badJson", "network" } : << "pull", k >> \in faults[r]
  \/ \E k \in { "status404", "status5xx", "badJson", "network" } : << "runs", k >> \in faults[r]

\* C3: whenever an upstream call of the locator fails (PR lookup or run-list
\* lookup), the request ends in the locator's failure (the handler's promise
\* rejects) and never in NotFound.
C3_LocatorFailureNeverNotFound ==
  \A r \in Req :
    (pc[r] = "responded" /\ LocatorCallFailed(r)) =>
      /\ outcome[r] = "rejected"
      /\ outcome[r] # "404 workflow run not found"

\* C4: a request that reads the cache while it holds the run's archive takes
\* the archive from the cache file, issues no artifact-list request and no
\* archive download, and starts no cache write; a request that goes on to fetch
\* found no file.
C4_CacheHitFetchesNothing ==
  \A r \in Req :
    LET f == fs[<< "zip", run[r].id >>] IN
    /\ fromCache[r] =>
         /\ calls[r] \cap { "artifacts", "download", "writeFile" } = {}
         /\ store[r] = NoStore
         /\ f.exists
         /\ zipBuffer[r] = f.data
    /\ (pc[r] \in { "artifacts", "download" } => ~f.exists /\ ~fromCache[r])

\* A request served from the cache has ended with the jar.
C4_Witness ==
  \E r \in Req :
    /\ fromCache[r]
    /\ pc[r] = "responded"
    /\ outcome[r] = "200 jar"
    /\ calls[r] = { "runs", "readFile" }

\* b is the whole buffer that a cache write for run id was given.
StoredFor(b, id) ==
  \E q \in Req : store[q].st # "none" /\ run[q].id = id /\ store[q].buf = b

\* C5: in every interleaving of cache writes and cache reads of a run id, the
\* cache file is absent or holds the complete bytes of a write, and a read that
\* succeeded returned the complete bytes of a write.
C5_NoPartialLoad ==
  /\ \A id \in RunIds :
       fs[<< "zip", id >>].exists => StoredFor(fs[<< "zip", id >>].data, id)
  /\ \A r \in Req : fromCache[r] => StoredFor(zipBuffer[r], run[r].id)

\* A read of a run's cache file is pending while a write for the same run has
\* written a part of its bytes.
C5_Witness ==
  \E r, q \in Req :
    /\ r # q
    /\ pc[r] = "readFile"
    /\ run[r].id = run[q].id
    /\ store[q].st = "writing"
    /\ store[q].n >= 1
    /\ store[q].n < Len(store[q].buf)

\* C6: a read of a run's cache file that settles after a write for that run id
\* has completed succeeds and returns exactly the bytes the write was given.
C6_LoadAfterStore ==
  [][\A r, q \in Req :
       ( /\ pc[r] = "readFile"
         /\ pc'[r] # "readFile"
         /\ store[q].st = "done"
         /\ run[q].id = run[r].id )
       => (fromCache'[r] /\ zipBuffer'[r] = store[q].buf)]_vars

C6_Witness ==
  \E r, q \in Req :
    /\ r # q
    /\ fromCache[r]
    /\ store[q].st = "done"
    /\ run[q].id = run[r].id
    /\ zipBuffer[r] = store[q].buf

\* C7: once the cache file of a run id exists, no step changes its content,
\* replaces it with other bytes or removes it, and it is read-only.
C7_EntryImmutable ==
  [][\A id \in RunIds :
       LET p == << "zip", id >> IN
       /\ (fs[p].exists => fs'[p] = fs[p])
       /\ (fs'[p].exists => fs'[p].mode = "0444")]_vars

\* Two cache writes for the same run id have both completed.
C7_Witness ==
  \E r, q \in Req :
    /\ r # q
    /\ store[r].st = "done"
    /\ store[q].st = "done"
    /\ store[r].path = store[q].path
    /\ fs[store[r].path].exists

\* Requests r and q both missed the cache for the same run id.
BothMissed(r, q) ==
  /\ r # q
  /\ run[r].id = run[q].id
  /\ "artifacts" \in calls[r]
  /\ "artifacts" \in calls[q]

\* C8: two requests that both miss the cache for one run id are not
\* coordinated: each that obtains the entry has made its own artifact-list
\* request and download, has started its own cache write of the bytes it
\* downloaded, and holds the entry of those bytes; a request whose download
\* delivered a container with an entry is never failed; and once both writes
\* have completed the cache file is one complete read-only copy of the archive
\* and no temporary file is left.
C8_ConcurrentMisses ==
  \A r, q \in Req :
    BothMissed(r, q) =>
      /\ pc[r] = "serve" =>
           /\ { "artifacts", "download", "writeFile" } \subseteq calls[r]
           /\ ~fromCache[r]
           /\ store[r].st # "none"
           /\ store[r].buf = zipBuffer[r]
           /\ entry[r] = [fileName |-> zipBuffer[r][1],
                          uncompressedSize |-> Len(zipBuffer[r]) - 1]
      /\ (zipBuffer[r] # Undefined /\ zipBuffer[r][Len(zipBuffer[r])] = EocdOne) =>
           pc[r] \in { "fromBuffer", "readEntry", "serve" }
      /\ (store[r].st = "done" /\ store[q].st = "done") =>
           /\ fs[<< "zip", run[r].id >>] =
                [exists |-> TRUE, data |-> zipBuffer[r], mode |-> "0444"]
           /\ zipBuffer[q] = zipBuffer[r]
           /\ ~fs[<< "tmp", r >>].exists
           /\ ~fs[<< "tmp", q >>].exists

C8_Witness ==
  \E r, q \in Req :
    /\ BothMissed(r, q)
    /\ pc[r] = "serve"
    /\ pc[q] = "serve"
    /\ store[r].st = "done"
    /\ store[q].st = "done"

\* C9: when the cache write of a request fails, the failure is logged, and the
\* request holds the entry of the bytes it downloaded and ends, if it has
\* ended, with one of the outcomes of a request whose write succeeded.
C9_WriteFailureNotFatal ==
  \A r \in Req :
    store[r].st = "failed" =>
      /\ logged[r]
      /\ ~fromCache[r]
      /\ entry[r] = [fileName |-> zipBuffer[r][1],
                     uncompressedSize |-> Len(zipBuffer[r]) - 1]
      /\ pc[r] \in { "serve", "streaming", "responded" }
      /\ (pc[r] = "responded" =>
            outcome[r] \in { "200 jar", "200 json", "aborted",
                             "500 failed to read artifact zip file" })

C9_Witness ==
  \E r \in Req :
    /\ store[r].st = "failed"
    /\ logged[r]
    /\ pc[r] = "responded"
    /\ outcome[r] = "200 jar"

\* C10: when the cache misses and the artifact list holds no artifact named
\* "Chunky Core", the request ends with 404 "chunky-core artifact not found in
\* workflow run": no download is requested, nothing is written, the process
\* keeps running, and the outcome is neither a rejection nor "workflow run not
\* found".
C10_ArtifactNotFound ==
  \A r \in Req :
    << "artifacts", "noChunkyCore" >> \in faults[r] =>
      /\ pc[r] = "responded"
      /\ outcome[r] = "404 chunky-core artifact not found in workflow run"
      /\ calls[r] \cap { "download", "writeFile" } = {}
      /\ ~fromCache[r]
      /\ store[r] = NoStore
      /\ alive

C10_Witness ==
  \E r \in Req :
    /\ << "artifacts", "noChunkyCore" >> \in faults[r]
    /\ outcome[r] = "404 chunky-core artifact not found in workflow run"
    /\ "artifacts" \in calls[r]

\* A call of the archive fetcher (artifact list or archive download) of
\* request r ended in a non-success status or a network error.
FetchCallFailed(r) ==
  \E c \in { "artifacts", "download" }, k \in { "status404", "status5xx", "network" } :
    << c, k >> \in faults[r]

\* C11: when the artifact-list request or the archive download of a request
\* ends in a non-success HTTP status or a network error, the request ends in a
\* fetch failure and never with the outcome of a missing artifact (404
\* "chunky-core artifact not found in workflow run").
C11_FetchFailureDistinct ==
  \A r \in Req :
    (pc[r] = "responded" /\ FetchCallFailed(r)) =>
      /\ outcome[r] # "404 chunky-core artifact not found in workflow run"
      /\ outcome[r] = "rejected"

\* Request r missed the cache, downloaded the archive with a success status
\* and located the first entry of the bytes it downloaded.
FetchedAndLocated(r) ==
  /\ ~fromCache[r]
  /\ { "artifacts", "download" } \subseteq calls[r]
  /\ \A k \in DownloadKinds : << "download", k >> \notin faults[r]
  /\ zipBuffer[r] # Undefined
  /\ entry[r] = [fileName |-> zipBuffer[r][1],
                 uncompressedSize |-> Len(zipBuffer[r]) - 1]

\* Request r ended, or is stuck, without an entry: artifact not found, a
\* rejection (fetch failure, container that does not parse), a container
\* without entry or with an invalid entry.
EndedWithoutEntry(r) ==
  \/ outcome[r] \in { "404 chunky-core artifact not found in workflow run", "rejected" }
  \/ pc[r] = "pending"
  \/ << "zip", "readEntry" >> \in faults[r]

\* C12: every step that changes a file of the cache directory is a step of
\* the cache write of a request that missed the cache, downloaded the archive
\* with a success status and located its first entry, and that write is for
\* the request's run id and bytes; a request that ended in artifact not found,
\* a fetch failure or a container parse failure has started no cache write.
C12_StoreOnlyAfterEntry ==
  [][ /\ \A p \in Paths :
           fs'[p] # fs[p] =>
             \E r \in Req :
               /\ store[r].st \in { "writing", "written" }
               /\ store'[r] # store[r]
               /\ FetchedAndLocated(r)
               /\ store[r].path = << "zip", run[r].id >>
               /\ store[r].buf = zipBuffer[r]
      /\ \A r \in Req :
           /\ (store'[r].st # "none" /\ store[r].st = "none") =>
                (FetchedAndLocated(r))'
           /\ (EndedWithoutEntry(r))' =>
                (store'[r].st = "none" /\ "writeFile" \notin calls'[r]) ]_vars

\* A request whose download was no zip container has been rejected and the
\* cache file of its run is absent.
C12_Witness ==
  \E r \in Req :
    /\ << "zip", "fromBuffer" >> \in faults[r]
    /\ "download" \in calls[r]
    /\ outcome[r] = "rejected"
    /\ ~fs[<< "zip", run[r].id >>].exists

\* C13: a request that carries a conditional timestamp which the creation
\* time of the resolved run equals or predates is answered 304, on the
\* metadata routes and on the binary routes, without any cache read,
\* artifact-list request, download, zip open, digest or entry stream.
C13_NotModifiedShortCircuit ==
  \A r \in Req :
    (ims[r] # 0 /\ run[r] # NoRun /\ run[r].created_at <= ims[r]) =>
      /\ pc[r] = "responded"
      /\ outcome[r] = "304"
      /\ calls[r] \cap { "readFile", "artifacts", "download", "writeFile" } = {}
      /\ zipBuffer[r] = Undefined
      /\ stream[r] = "none"
      /\ \A a \in Algorithms : hashes[r][a].st = "none"

\* The digest of the whole content of the entry of request r, as sent.
WholeDigest(r) == << "upper", SubSeq(zipBuffer[r], 1, Len(zipBuffer[r]) - 1) >>

\* C14: for each algorithm, a digest value is obtained from the hash only
\* after the hash has consumed every byte of the entry's read stream and has
\* been ended; the digest is that of the whole content, never that of a proper
\* prefix, and so are the digests of the document sent.
C14_DigestAfterDrain ==
  \A r \in Req :
    /\ \A a \in Algorithms :
         hashes[r][a].st = "resolved" =>
           /\ hashes[r][a].ended
           /\ hashes[r][a].fed = entry[r].uncompressedSize
           /\ hashes[r][a].fed = Len(zipBuffer[r]) - 1
           /\ hashes[r][a].value = WholeDigest(r)
    /\ outcome[r] = "200 json" =>
         /\ resBody[r].md5 = WholeDigest(r)
         /\ resBody[r].sha256 = WholeDigest(r)

\* One digest has been obtained while the other hash has not yet consumed the
\* whole entry.
C14_Witness ==
  \E r \in Req :
    /\ hashes[r]["md5"].st = "resolved"
    /\ hashes[r]["md5"].value[2] # << >>
    /\ hashes[r]["sha256"].st = "piped"
    /\ hashes[r]["sha256"].fed < entry[r].uncompressedSize

\* C15: when opening or reading a digest stream of a metadata request fails,
\* the request ends with a failure outcome: it neither sends a document with a
\* missing or empty digest nor stays without any outcome.
C15_DigestFailureSurfaces ==
  \A r \in Req :
    /\ (\E k \in { "openErr", "readNull" } : << "digest", k >> \in faults[r]) =>
         /\ pc[r] = "responded"
         /\ outcome[r] \in { "rejected", "500 failed to read artifact zip file" }
    /\ outcome[r] = "200 json" =>
         /\ resBody[r].md5 # << >>
         /\ resBody[r].sha256 # << >>

\* C16: when the entry of a binary request was located and opening its read
\* stream fails, the request ends with 500 "failed to read artifact zip file",
\* which is neither of the 404 outcomes, and neither a framing header
\* (Content-Length, Content-Type, Content-Disposition) nor a byte of the entry
\* has been sent.
C16_StreamOpenFailure ==
  \A r \in Req :
    << "openReadStream", "err" >> \in faults[r] =>
      /\ pc[r] = "responded"
      /\ outcome[r] = "500 failed to read artifact zip file"
      /\ outcome[r] \notin { "404 workflow run not found",
                            "404 chunky-core artifact not found in workflow run" }
      /\ resHeaders[r] \cap { "Content-Length", "Content-Type", "Content-Disposition" } = {}
      /\ sent[r] = 0
      /\ stream[r] = "none"
      /\ alive

C16_Witness ==
  \E r \in Req :
    /\ route[r] = "prJar"
    /\ entry[r].uncompressedSize > 0
    /\ << "openReadStream", "err" >> \in faults[r]
    /\ outcome[r] = "500 failed to read artifact zip file"

\* C17: when the archive bytes of a request, downloaded or read from the
\* cache, do not parse as a zip container (yauzl reports an error for the
\* buffer or for its first entry), the request ends in an internal error, the
\* rejection that carries the parse error, and never in 404 "workflow run not
\* found" or 404 "chunky-core artifact not found in workflow run".
C17_ContainerCorrupt ==
  \A r \in Req :
    (\E k \in { "fromBuffer", "readEntry" } : << "zip", k >> \in faults[r]) =>
      /\ pc[r] = "responded"
      /\ outcome[r] = "rejected"
      /\ outcome[r] \notin { "404 workflow run not found",
                            "404 chunky-core artifact not found in workflow run" }

\* C18: once the client has disconnected while the entry was being streamed,
\* the entry read stream of the request is released (it is no longer open),
\* and the request has started no cache write that a completed request would
\* not have started.
C18_DisconnectReleasesStream ==
  \A r \in Req :
    outcome[r] = "aborted" =>
      /\ stream[r] # "open"
      /\ (store[r].st # "none" => ~fromCache[r] /\ store[r].buf = zipBuffer[r])

\* s is the decimal notation of a positive integer.
IsPositiveInteger(s) ==
  /\ Len(s) >= 1
  /\ \A i \in 1..Len(s) : s[i] \in { "0", "1" }
  /\ \E i \in 1..Len(s) : s[i] = "1"

\* C19: on every route that takes a PR number, a request whose number is not
\* a positive integer is rejected (400 "invalid pr number") before any
\* outbound call: it has issued no upstream request and no cache read.
C19_InvalidIdentifierRejected ==
  \A r \in Req :
    (route[r] \in { "prJar", "prJson" } /\ ~IsPositiveInteger(number[r])) =>
      /\ calls[r] = {}
      /\ pc[r] = "responded"
      /\ outcome[r] = "400 invalid pr number"

\* The stages of request r that have produced their result.
LocatorDone(r) == run[r] # NoRun /\ Eligible(run[r])
ArchiveDone(r) == zipBuffer[r] # Undefined
EntryDone(r) == ArchiveDone(r) /\ entry[r].uncompressedSize = Len(zipBuffer[r]) - 1

\* Work of the stages of request r that is going on.
CacheWriteWorking(r) == store[r].st \in { "writing", "written" }
DigestWorking(r, a) == hashes[r][a].st = "piped"
StreamWorking(r) == stream[r] = "open" /\ pc[r] = "streaming"

\* Within request r no stage has started before the stage before it produced
\* its result, and digests and entry stream exclude each other.
StagesInOrder(r) ==
  /\ "readFile" \in calls[r] => LocatorDone(r)
  /\ "artifacts" \in calls[r] => ("readFile" \in calls[r] /\ ~fromCache[r])
  /\ "download" \in calls[r] => "artifacts" \in calls[r]
  /\ pc[r] \in { "fromBuffer", "readEntry", "pending", "serve", "streaming" } =>
       ArchiveDone(r)
  /\ pc[r] \in { "serve", "streaming" } => EntryDone(r)
  /\ store[r].st # "none" => EntryDone(r)
  /\ (\E a \in Algorithms : hashes[r][a].st # "none") =>
       /\ EntryDone(r)
       /\ route[r] \in { "prJson", "branchJson" }
       /\ stream[r] = "none"
       /\ sent[r] = 0
  /\ (stream[r] # "none" \/ sent[r] > 0) =>
       /\ EntryDone(r)
       /\ route[r] \in { "prJar", "branchJar" }
       /\ \A a \in Algorithms : hashes[r][a].st = "none"

\* C20 as stated: the stages of a request run strictly in the order locator,
\* cache and fetcher, zip entry locator, digests or entry stream, and the two
\* digest computations are the only stage work that overlaps: no cache write
\* is going on while a digest or the entry stream is.
C20_OnlyDigestsOverlap ==
  \A r \in Req :
    /\ StagesInOrder(r)
    /\ CacheWriteWorking(r) =>
         /\ ~StreamWorking(r)
         /\ \A a \in Algorithms : ~DigestWorking(r, a)

\* C20, amended: the stages of a request run strictly in that order, no
\* stage starting before the previous one has produced its result; the work
\* that overlaps is that of the two digest computations and that of the cache
\* write, which starts when the entry is located and is not awaited.
C20_StagesInOrder ==
  \A r \in Req :
    /\ StagesInOrder(r)
    /\ CacheWriteWorking(r) => (EntryDone(r) /\ ~fromCache[r])

\* Both digest computations and the cache write of a request are under way.
C20_Witness ==
  \E r \in Req :
    /\ DigestWorking(r, "md5")
    /\ DigestWorking(r, "sha256")
    /\ hashes[r]["md5"].fed > hashes[r]["sha256"].fed
    /\ CacheWriteWorking(r)

\* A step of the handler of request r, from the first upstream answer to the
\* response.
HandlerStep(r) ==
  \/ GetPullRequestResponse(r)
  \/ PullResponse(r)
  \/ RunsResponse(r)
  \/ SelectRun(r)
  \/ ReadFileResult(r)
  \/ ArtifactsResponse(r)
  \/ DownloadResponse(r)
  \/ FromBuffer(r)
  \/ EntryEvent(r)
  \/ OpenReadStream(r)
  \/ StreamData(r)
  \/ StreamEnd(r)
  \/ ClientClose(r)
  \/ \E a \in Algorithms : OpenDigestStream(r, a)
  \/ \E a \in Algorithms : HashData(r, a)
  \/ \E a \in Algorithms : HashEnd(r, a)
  \/ \E a \in Algorithms : StreamFinish(r, a)
  \/ SendJson(r)

\* C21: every artifact request receives a response, whatever the archive
\* holds: a request that has no outcome yet is never left without a step that
\* leads on to one, neither because the process has ended nor because the
\* handler waits for an event that will not come (a container without entry,
\* an error reported for the first entry).
C21_EveryRequestAnswered ==
  \A r \in Req :
    pc[r] \notin { "idle", "responded" } =>
      /\ alive
      /\ pc[r] # "pending"
      /\ ENABLED HandlerStep(r)

\* The locator of request r got a run list and found no completed, successful
\* run in it.
LocatorFoundNoRun(r) ==
  /\ workflows[r] # NoList
  /\ pc[r] # "find"
  /\ \A i \in 1..Len(workflows[r]) : ~Eligible(workflows[r][i])

\* C22: on every route that resolves a run, the PR routes and the branch
\* routes, binary and metadata alike, a request whose locator found no run
\* ends with 404 "workflow run not found" and has used the run for nothing: no
\* cache read and no fetch.
C22_NoRunIsNotFound ==
  \A r \in Req :
    LocatorFoundNoRun(r) =>
      /\ pc[r] = "responded"
      /\ outcome[r] = "404 workflow run not found"
      /\ calls[r] \cap { "readFile", "artifacts", "download", "writeFile" } = {}

\* C23: a binary request that follows a metadata request for the same build
\* identifier serves the bytes the metadata advertised, whatever upstream
\* answers in between (a newer successful run included): as many bytes as the
\* advertised size, with the advertised md5 and sha256 digests.
C23_BinaryMatchesMetadata ==
  \A r \in Req \ { 1 } :
    (outcome[1] = "200 json" /\ outcome[r] = "200 jar") =>
      /\ sent[r] = resBody[1].size
      /\ resBody[1].md5 = << "upper", SubSeq(zipBuffer[r], 1, sent[r]) >>
      /\ resBody[1].sha256 = << "upper", SubSeq(zipBuffer[r], 1, sent[r]) >>

====
